---- MODULE Spec2Model ----
(***************************************************************************)
(* A model of smallsh.c: the control loop of main (reaper sweep, prompt,   *)
(* parse, built-ins, fork, foreground wait / background registration),     *)
(* the children it forks, and the SIGTSTP handler catchSIGTSTP, which the  *)
(* kernel may run between any two steps of the control loop.               *)
(*                                                                         *)
(* Representation.                                                         *)
(*  - A C string is a sequence of one-character strings; a command line is *)
(*    the sequence of tokens strtok_r(userline, " ") yields from it.       *)
(*  - A char* that is NULL is the empty sequence (strtok_r never yields an *)
(*    empty token).                                                        *)
(*  - backgroundPids is a function on the live slots                       *)
(*    0 .. backgroundPidCount-1, with C indices; the slots past the count  *)
(*    hold indeterminate values (uninitialised or stale) and a read of one *)
(*    yields any value of DeadSlotValues.                                  *)
(*  - A wait status is the int the kernel stores: exit code c is c * 256,  *)
(*    death by signal s is s.                                              *)
(*  - Process IDs are handed out in increasing order and never reused      *)
(*    within a run.                                                        *)
(***************************************************************************)
EXTENDS Integers, Sequences, FiniteSets, TLC

(***************************************************************************)
(* Bounds of the model.                                                    *)
(***************************************************************************)
\* Number of children the shell forks in one run.
MaxProcs == 3
\* Length of an argument token drawn for the parser.
MaxTokLen == 4

(***************************************************************************)
(* Program constants.                                                      *)
(***************************************************************************)
\* int backgroundPids[100]
BackgroundPidSlots == 100
\* fgPidForSignal = -5, childExitMethod = -5, forkPid = -5
NoPid == -5

NULL == <<>>

(***************************************************************************)
(* Tokens.                                                                 *)
(***************************************************************************)
Tok_lt == <<"<">>
Tok_gt == <<">">>
Tok_amp == <<"&">>
Tok_cd == <<"c", "d">>
Tok_exit == <<"e", "x", "i", "t">>
Tok_status == <<"s", "t", "a", "t", "u", "s">>
Tok_ls == <<"l", "s">>
Tok_comment == <<"#", "c">>
Tok_file == <<"f">>

\* What a buffer holds after strcpy(tempStr, NULL) if the call returns.
GarbagePaths == {<<"?">>}

(***************************************************************************)
(* <sys/wait.h> status macros, on the int the kernel stores.               *)
(***************************************************************************)
WTERMSIG(s) == s % 128

WIFEXITED(s) == WTERMSIG(s) = 0

\* ((signed char)((s & 0x7f) + 1) >> 1) > 0
WIFSIGNALED(s) == WTERMSIG(s) >= 1 /\ WTERMSIG(s) <= 126

WEXITSTATUS(s) == (s \div 256) % 256

(***************************************************************************)
(* sprintf("%d") of a positive int.                                        *)
(***************************************************************************)
Digit(d) == CASE d = 0 -> "0" [] d = 1 -> "1" [] d = 2 -> "2" [] d = 3 -> "3"
              [] d = 4 -> "4" [] d = 5 -> "5" [] d = 6 -> "6" [] d = 7 -> "7"
              [] d = 8 -> "8" [] d = 9 -> "9"

RECURSIVE Decimal(_)
Decimal(n) == IF n < 10 THEN <<Digit(n)>>
              ELSE Decimal(n \div 10) \o <<Digit(n % 10)>>

(***************************************************************************)
(* parseUserCmd.                                                           *)
(***************************************************************************)
\* The for loop of lines 366-379: the index of the first '$' that is followed
\* by another '$', or 0 when there is none (indices from 1).
RECURSIVE FirstDollars(_, _)
FirstDollars(piece, n) ==
    IF n > Len(piece) THEN 0
    ELSE IF piece[n] = "$" /\ n + 1 <= Len(piece) /\ piece[n + 1] = "$"
         THEN n
         ELSE FirstDollars(piece, n + 1)

\* Lines 363-387: the string copied into args[idx] for an argument token.
\* piece[i] = '\0' cuts the token at the first "$$"; "%s%d" appends the pid.
ExpandArg(piece, pid) ==
    LET n == FirstDollars(piece, 1)
    IN IF n = 0 THEN piece
       ELSE SubSeq(piece, 1, n - 1) \o Decimal(pid)

\* The while loop of lines 341-393 from token k on. st is the record of the
\* out-parameters; nullDeref records a strcpy from the NULL that strtok_r
\* returns when "<" or ">" is the last token.
RECURSIVE ParseRest(_, _, _, _)
ParseRest(toks, k, pid, st) ==
    IF k > Len(toks) THEN st
    ELSE LET piece == toks[k] IN
         IF piece = Tok_lt
         THEN IF k + 1 > Len(toks)
              THEN [st EXCEPT !.nullDeref = "input"]
              ELSE ParseRest(toks, k + 2, pid, [st EXCEPT !.input = toks[k + 1]])
         ELSE IF piece = Tok_gt
         THEN IF k + 1 > Len(toks)
              THEN [st EXCEPT !.nullDeref = "output"]
              ELSE ParseRest(toks, k + 2, pid, [st EXCEPT !.output = toks[k + 1]])
         ELSE IF piece = Tok_amp
         THEN ParseRest(toks, k + 1, pid, [st EXCEPT !.backgroundFlag = TRUE])
         ELSE ParseRest(toks, k + 1, pid,
                        [st EXCEPT !.args = Append(@, ExpandArg(piece, pid))])

\* parseUserCmd: args is the filled prefix args[0 .. argCount-1] (args[argCount]
\* is set to NULL). input, output and backgroundFlag start from the values the
\* caller passes in.
parseUserCmd(userline, input, output, backgroundFlag, pid) ==
    LET st0 == [args |-> IF Len(userline) > 0 THEN <<userline[1]>> ELSE <<>>,
                input |-> input, output |-> output,
                backgroundFlag |-> backgroundFlag, nullDeref |-> "none"]
    IN ParseRest(userline, 2, pid, st0)

(***************************************************************************)
(* State.                                                                  *)
(***************************************************************************)
VARIABLES
    pc,                 \* where the control loop of main stands
    handler,            \* where catchSIGTSTP stands: "idle" when not running
    eintr,              \* a blocking waitpid of main was interrupted by the handler
    foregroundOnly,     \* volatile static bool foregroundOnly
    fgPidForSignal,     \* volatile static int fgPidForSignal
    childExitMethod,    \* status of the last foreground wait
    backgroundPids,     \* live slots of int backgroundPids[100]
    backgroundPidCount,
    idx,                \* loop index of the reaper sweep
    i,                  \* loop index of terminatePidGroup
    forkPid,
    userCmd,            \* the line read, as its tokens
    cmdargs,            \* cmdargs[0 .. cmdArgCount-1]
    inputfile,
    outputfile,
    background,
    parentPid,          \* getpid() of the shell
    procs,              \* the children forked so far, by process ID
    reports,            \* the IDs of the "<pid> has been reaped." lines printed
    typed,              \* history: the line as typed, before strtok_r cut it
    dispatch,           \* history: the dispatch in progress (see NoDispatch)
    sweepIds,           \* history: IDs registered when the current sweep started
    sweepDead,          \* history: those of them already terminated at that time
    checked,            \* history: IDs the current sweep called waitpid on
    oddDeliveries,      \* history: SIGTSTP was delivered an odd number of times
    lateTermination,    \* history: a child terminated after the first reap
                        \* report, or part-way through a reaper sweep
    shellExit,          \* the argument of the exit() the shell has called, if any
    fds                 \* the shell's descriptors: what each one refers to

vars == <<pc, handler, eintr, foregroundOnly, fgPidForSignal, childExitMethod,
          backgroundPids, backgroundPidCount, idx, i, forkPid, userCmd, cmdargs,
          inputfile, outputfile, background, parentPid, procs, reports, typed,
          dispatch, sweepIds, sweepDead, checked, oddDeliveries,
          lateTermination, shellExit, fds>>

\* The reaper's variables.
reaperVars == <<backgroundPids, backgroundPidCount, idx, reports, sweepIds,
                sweepDead, checked>>

\* The variables of the command being handled.
cmdVars == <<userCmd, cmdargs, inputfile, outputfile, background, typed>>

\* The shell process as the kernel sees it.
osVars == <<shellExit, fds>>

\* The variables the handler shares with main, and the handler's own.
sigVars == <<handler, eintr, foregroundOnly, fgPidForSignal, oddDeliveries>>

(***************************************************************************)
(* The environment: statuses a child may end with, lines a user may type.  *)
(***************************************************************************)
\* What a program that was exec'd ends with: exit(0), or death by SIGINT. (The
\* status of exit(1) is what a child whose exec or open fails ends with.)
ExitStatuses == {0, 2}

SIGTERM == 15

\* What a read of a slot of backgroundPids past the count may yield.
DeadSlotValues == {0, -1}

ShellPids == {42}

UserLines == {
    <<>>,                          \* blank line
    <<Tok_comment>>,               \* # comment
    <<Tok_comment, Tok_gt>>,       \* # comment ending in >
    <<Tok_ls>>,                    \* foreground command
    <<Tok_ls, Tok_amp>>,           \* background command
    <<Tok_ls, Tok_gt>>,            \* > with no path
    <<Tok_ls, Tok_lt, Tok_file>>,  \* foreground command, < path
    <<Tok_cd>>,
    <<Tok_status>>,
    <<Tok_exit>> }

\* The branch of lines 156-184 a parsed command takes.
IsNoOp(args) == IF args = <<>> THEN TRUE ELSE args[1][1] = "#"

IsBuiltin(args) == args[1] \in {Tok_cd, Tok_exit, Tok_status}

Forks(args) == ~IsNoOp(args) /\ ~IsBuiltin(args)

(***************************************************************************)
(* Descriptors. A descriptor table says what standard input and standard  *)
(* output refer to; the shell's also holds the two copies main makes.      *)
(***************************************************************************)
Terminal == <<"t", "t", "y">>

DevNull == <<"/", "d", "e", "v", "/", "n", "u", "l", "l">>

\* Lines 95-96: savedStdin = dup(STDIN_NUM), savedStdout = dup(STDOUT_NUM), in a
\* shell started on a terminal.
StartFds == [stdin |-> Terminal, stdout |-> Terminal,
             savedStdin |-> Terminal, savedStdout |-> Terminal]

\* A dup2 whose target is always the null device.
stdinToNull(tab, file) == [tab EXCEPT !.stdin = DevNull]

\* redirectStdin(FDNum), dup2(FDNum, STDIN_NUM): file is what FDNum refers to.
redirectStdin(tab, file) == [tab EXCEPT !.stdin = file]

\* redirectStdout(FDNum), dup2(FDNum, STDOUT_NUM).
redirectStdout(tab, file) == [tab EXCEPT !.stdout = file]

(***************************************************************************)
(* The kernel's process table as the shell sees it. An entry holds the     *)
(* child's state and wait status, its copies of background, inputfile and  *)
(* outputfile (until exec replaces the image), what its standard input and *)
(* output refer to, and its dispositions of SIGINT and SIGTSTP.            *)
(***************************************************************************)
\* A process that has terminated with status st: it holds no descriptors and
\* handles no signals any more.
Dead(st) == [state |-> "zombie", status |-> st, background |-> FALSE,
             inputfile |-> NULL, outputfile |-> NULL,
             stdin |-> NULL, stdout |-> NULL,
             sigint |-> "none", sigtstp |-> "none", ranHandler |-> FALSE]

Gone == Dead(NoPid)

IsChild(ps, pid) == pid \in 1..Len(ps)

\* The child has not terminated: it still runs the shell's code (lines 191-205,
\* "forked") or the program it has exec'd ("running").
Running(ps, pid) == IsChild(ps, pid) /\ ps[pid].state \in {"forked", "running"}

Forked(ps, pid) == IsChild(ps, pid) /\ ps[pid].state = "forked"

Execd(ps, pid) == IsChild(ps, pid) /\ ps[pid].state = "running"

Zombie(ps, pid) == IsChild(ps, pid) /\ ps[pid].state = "zombie"

\* waitpid(pid, &status, options): ret is the return value, status the value
\* stored (meaningful when ret = pid), blocks says the call does not return yet.
\* A pid that is no un-reaped child (such as -5: any child in process group 5)
\* fails with ECHILD.
waitpid(ps, pid, nohang) ==
    IF Zombie(ps, pid)
    THEN [ret |-> pid, status |-> ps[pid].status, blocks |-> FALSE]
    ELSE IF Running(ps, pid)
         THEN [ret |-> 0, status |-> 0, blocks |-> ~nohang]
         ELSE [ret |-> -1, status |-> 0, blocks |-> FALSE]

\* The process table after a waitpid that returned ret: the kernel releases the
\* entry and its status.
Reaped(ps, ret) ==
    IF IsChild(ps, ret)
    THEN [ps EXCEPT ![ret] = [Gone EXCEPT !.state = "reaped"]]
    ELSE ps

Alive == pc \notin {"exited", "crashed", "undefined"}

\* main runs only while the handler does not.
MainAt(label) == pc = label /\ handler = "idle"

Registry == [k \in 1..backgroundPidCount |-> backgroundPids[k - 1]]

RegisteredIds == {backgroundPids[k] : k \in 0..(backgroundPidCount - 1)}

\* The history of a dispatch: the child forked, how the parent treated it
\* ("fg": waited for, "bg": registered), the ShellMode line 214 read when it
\* decided that, and the status the child has terminated with (kept for a child
\* the parent waits for).
NoDispatch == [pid |-> NoPid, class |-> "none", mode |-> "none", status |-> NoPid,
               execFailed |-> FALSE]

ShellMode(fgOnly) == IF fgOnly THEN "foreground-only" ELSE "normal"

(***************************************************************************)
(* Initial state: main up to line 116.                                     *)
(***************************************************************************)
InitWith(pids, label) ==
    /\ pc = label
    /\ handler = "idle"
    /\ eintr = FALSE
    /\ foregroundOnly = FALSE
    /\ fgPidForSignal = NoPid
    /\ childExitMethod = NoPid
    /\ backgroundPids = [k \in 0..(-1) |-> NoPid]
    /\ backgroundPidCount = 0
    /\ idx = 0
    /\ i = 0
    /\ forkPid = NoPid
    /\ userCmd = NULL
    /\ cmdargs = <<>>
    /\ inputfile = NULL
    /\ outputfile = NULL
    /\ background = FALSE
    /\ parentPid \in pids
    /\ procs = <<>>
    /\ reports = <<>>
    /\ typed = NULL
    /\ dispatch = NoDispatch
    /\ sweepIds = {}
    /\ sweepDead = {}
    /\ checked = {}
    /\ oddDeliveries = FALSE
    /\ lateTermination = FALSE
    /\ shellExit = <<>>
    /\ fds = StartFds

Init == InitWith(ShellPids, "sweep")

(***************************************************************************)
(* The reaper sweep, lines 122-143.                                        *)
(***************************************************************************)
\* Lines 136-139: for (j = idx; j < count; j++) pids[j] = pids[j + 1].
\* The last round reads slot count, which is past the live slots: dead is the
\* value that read yields.
\* A removal that fills slot j with the last live entry instead of sliding.
fillFromLast(pids, j, count, dead) ==
    [k \in DOMAIN pids |-> IF k = j THEN pids[count - 1] ELSE pids[k]]

RECURSIVE slideForward(_, _, _, _)
slideForward(pids, j, count, dead) ==
    IF j < count
    THEN slideForward([pids EXCEPT ![j] = IF j + 1 < count THEN pids[j + 1] ELSE dead],
                      j + 1, count, dead)
    ELSE pids

\* The live slots after backgroundPidCount--.
Shrink(pids, count) == [k \in 0..(count - 2) |-> pids[k]]

\* Line 127: if (actualBgPid).
WasReaped(actualBgPid) == actualBgPid # 0

\* Line 122, idx++: the slot the sweep checks next after a round at slot n.
NextSlot(n) == n + 1

\* One round of the for loop of line 122: the WNOHANG check of slot idx and,
\* when waitpid returns non-zero, the report, the slide and the decrement.
ReapCheck ==
    /\ MainAt("sweep")
    /\ idx < backgroundPidCount
    /\ LET actualBgPid == waitpid(procs, backgroundPids[idx], TRUE).ret
       IN /\ checked' = checked \cup {backgroundPids[idx]}
          /\ procs' = Reaped(procs, actualBgPid)
          /\ IF WasReaped(actualBgPid)
             THEN /\ reports' = Append(reports, actualBgPid)
                  /\ IF backgroundPidCount < BackgroundPidSlots
                     THEN /\ \E dead \in DeadSlotValues :
                                backgroundPids' =
                                    Shrink(slideForward(backgroundPids, idx,
                                                        backgroundPidCount, dead),
                                           backgroundPidCount)
                          /\ backgroundPidCount' = backgroundPidCount - 1
                          /\ pc' = pc
                     ELSE \* backgroundPids[100] is read: out of bounds
                          /\ pc' = "undefined"
                          /\ UNCHANGED <<backgroundPids, backgroundPidCount>>
             ELSE UNCHANGED <<reports, backgroundPids, backgroundPidCount, pc>>
    /\ idx' = NextSlot(idx)
    /\ UNCHANGED <<sigVars, cmdVars, childExitMethod, i, forkPid, parentPid, dispatch,
                   sweepIds, sweepDead, lateTermination, osVars>>

\* The loop of line 122 ends; termPrompt prints ":".
SweepDone ==
    /\ MainAt("sweep")
    /\ idx >= backgroundPidCount
    /\ pc' = "prompt"
    /\ UNCHANGED <<sigVars, cmdVars, reaperVars, childExitMethod, i, forkPid,
                   parentPid, procs, dispatch, lateTermination, osVars>>

(***************************************************************************)
(* Reading and parsing a line, lines 149-150.                              *)
(***************************************************************************)
\* strtok_r writes '\0' over the delimiter that ends the first token: the
\* string userline points at is cut to that token.
CutLine(userline) == IF userline = <<>> THEN <<>> ELSE <<userline[1]>>

\* userCmd = termPrompt(); parseUserCmd(userCmd, cmdargs, &cmdArgCount,
\* &inputfile, &outputfile, &background). line is the token sequence of the line
\* getline returns. strcpy(tempStr, NULL) is undefined behaviour: the shell dies
\* of SIGSEGV, or the call returns and leaves the buffer with indeterminate
\* content.
ReadAndParse(line) ==
    /\ MainAt("prompt")
    /\ typed' = line
    /\ userCmd' = CutLine(line)
    /\ LET r == parseUserCmd(line, inputfile, outputfile, background, parentPid)
       IN \/ /\ r.nullDeref = "none"
             /\ pc' = "decide"
             /\ cmdargs' = r.args
             /\ inputfile' = r.input
             /\ outputfile' = r.output
             /\ background' = r.backgroundFlag
          \/ /\ r.nullDeref # "none"
             /\ pc' = "crashed"
             /\ cmdargs' = r.args
             /\ inputfile' = r.input
             /\ outputfile' = r.output
             /\ background' = r.backgroundFlag
          \/ /\ r.nullDeref # "none"
             /\ pc' = "decide"
             /\ cmdargs' = r.args
             /\ background' = r.backgroundFlag
             /\ \E g \in GarbagePaths :
                   /\ inputfile' = IF r.nullDeref = "input" THEN g ELSE r.input
                   /\ outputfile' = IF r.nullDeref = "output" THEN g ELSE r.output
    /\ sweepIds' = {}
    /\ sweepDead' = {}
    /\ checked' = {}
    /\ UNCHANGED <<sigVars, childExitMethod, backgroundPids, backgroundPidCount,
                   idx, i, forkPid, parentPid, procs, reports, dispatch,
                   lateTermination, osVars>>

(***************************************************************************)
(* The decision path, lines 156-184, and the end of the loop body.         *)
(***************************************************************************)
\* Lines 242-264, and idx = 0 of line 122: the command's variables are reset and
\* the next sweep starts.
EndOfIteration ==
    /\ userCmd' = NULL
    /\ typed' = NULL
    /\ dispatch' = NoDispatch
    /\ inputfile' = NULL
    /\ outputfile' = NULL
    /\ cmdargs' = <<>>
    /\ background' = FALSE
    /\ idx' = 0
    /\ pc' = "sweep"
    /\ sweepIds' = RegisteredIds
    /\ sweepDead' = {p \in RegisteredIds : Zombie(procs, p)}
    /\ checked' = {}

\* Blank line (cmdargs[0] == NULL) or comment line (cmdargs[0][0] == '#').
NoOp ==
    /\ MainAt("decide")
    /\ IsNoOp(cmdargs)
    /\ EndOfIteration
    /\ UNCHANGED <<sigVars, childExitMethod, backgroundPids, backgroundPidCount, i,
                   forkPid, parentPid, procs, reports, lateTermination, osVars>>

\* cd: changeDirectory(cmdargs[1]); the working directory is not modelled.
BuiltinCd ==
    /\ MainAt("decide")
    /\ ~IsNoOp(cmdargs)
    /\ cmdargs[1] = Tok_cd
    /\ EndOfIteration
    /\ UNCHANGED <<sigVars, childExitMethod, backgroundPids, backgroundPidCount, i,
                   forkPid, parentPid, procs, reports, lateTermination, osVars>>

\* status: reportExitStatus(childExitMethod) prints and changes nothing.
BuiltinStatus ==
    /\ MainAt("decide")
    /\ ~IsNoOp(cmdargs)
    /\ cmdargs[1] = Tok_status
    /\ EndOfIteration
    /\ UNCHANGED <<sigVars, childExitMethod, backgroundPids, backgroundPidCount, i,
                   forkPid, parentPid, procs, reports, lateTermination, osVars>>

\* exit: terminatePidGroup(backgroundPids, backgroundPidCount) is entered.
BuiltinExit ==
    /\ MainAt("decide")
    /\ ~IsNoOp(cmdargs)
    /\ cmdargs[1] = Tok_exit
    /\ pc' = "term_kill"
    /\ i' = 0
    /\ UNCHANGED <<sigVars, cmdVars, reaperVars, childExitMethod, forkPid, parentPid,
                   procs, dispatch, lateTermination, osVars>>

(***************************************************************************)
(* fork and the parent side of the dispatch, lines 184-236.                *)
(***************************************************************************)
\* The entry of the process table for a child just forked: it has copies of
\* the parent's variables and descriptors, and the dispositions main set at
\* lines 82-83 (SIGTSTP caught by catchSIGTSTP, SIGINT ignored).
NewChild == [state |-> "forked", status |-> NoPid, background |-> background,
             inputfile |-> inputfile, outputfile |-> outputfile,
             stdin |-> fds.stdin, stdout |-> fds.stdout,
             sigint |-> "ignore", sigtstp |-> "catch", ranHandler |-> FALSE]

\* fork() succeeds: the parent gets the child's process ID. limit is the
\* number of children forked in one run.
ForkUnder(limit) ==
    /\ MainAt("decide")
    /\ Forks(cmdargs)
    /\ Len(procs) < limit
    /\ procs' = Append(procs, NewChild)
    /\ forkPid' = Len(procs) + 1
    /\ dispatch' = [NoDispatch EXCEPT !.pid = Len(procs) + 1]
    /\ pc' = "branch"
    /\ UNCHANGED <<sigVars, cmdVars, reaperVars, childExitMethod, i, parentPid,
                   lateTermination, osVars>>

Fork == ForkUnder(MaxProcs)

\* fork() returns -1: perror, exit(-2).
ForkFail ==
    /\ MainAt("decide")
    /\ Forks(cmdargs)
    /\ forkPid' = -1
    /\ pc' = "exited"
    /\ shellExit' = <<-2>>
    /\ UNCHANGED <<sigVars, cmdVars, reaperVars, childExitMethod, i, parentPid,
                   procs, dispatch, lateTermination, fds>>

\* A test that looks at the command's background flag alone.
FlagAlone(bg, fgOnly) == ~bg

\* Line 214: the test the parent makes.
RunsInForeground(bg, fgOnly) == ~bg \/ fgOnly

\* Line 214 taken: the parent will wait for the child.
BranchFg ==
    /\ MainAt("branch")
    /\ RunsInForeground(background, foregroundOnly)
    /\ dispatch' = [dispatch EXCEPT !.class = "fg",
                                    !.mode = ShellMode(foregroundOnly)]
    /\ pc' = "setfg"
    /\ UNCHANGED <<sigVars, cmdVars, reaperVars, childExitMethod, i, forkPid,
                   parentPid, procs, lateTermination, osVars>>

\* Line 216.
SetFg ==
    /\ MainAt("setfg")
    /\ fgPidForSignal' = forkPid
    /\ pc' = "fgwait"
    /\ UNCHANGED <<handler, eintr, foregroundOnly, oddDeliveries, cmdVars,
                   reaperVars, childExitMethod, i, forkPid, parentPid, procs,
                   dispatch, lateTermination, osVars>>

\* Line 217: forkPid = waitpid(forkPid, &childExitMethod, 0). The call returns
\* -1 and stores nothing when the handler interrupted it (EINTR, sa_flags has
\* no SA_RESTART) or when the child is no longer there to wait for (ECHILD).
FgWait ==
    /\ MainAt("fgwait")
    /\ LET r == IF eintr THEN [ret |-> -1, status |-> 0, blocks |-> FALSE]
                ELSE waitpid(procs, forkPid, FALSE)
       IN /\ ~r.blocks
          /\ forkPid' = r.ret
          /\ childExitMethod' = IF r.ret > 0 THEN r.status ELSE childExitMethod
          /\ procs' = Reaped(procs, r.ret)
    /\ eintr' = FALSE
    /\ pc' = "clearfg"
    /\ UNCHANGED <<handler, foregroundOnly, fgPidForSignal, oddDeliveries, cmdVars,
                   reaperVars, i, parentPid, dispatch, lateTermination, osVars>>

\* Lines 218-222: fgPidForSignal = -5, and the notice printed when
\* WIFSIGNALED(childExitMethod).
ClearFg ==
    /\ MainAt("clearfg")
    /\ fgPidForSignal' = NoPid
    /\ pc' = "restore"
    /\ UNCHANGED <<handler, eintr, foregroundOnly, oddDeliveries, cmdVars,
                   reaperVars, childExitMethod, i, forkPid, parentPid, procs,
                   dispatch, lateTermination, osVars>>

\* An insertion in front of the registered IDs.
InsertFirst(pids, count, pid) ==
    [k \in 0..count |-> IF k = 0 THEN pid ELSE pids[k - 1]]

\* Lines 227-228: backgroundPids[backgroundPidCount] = forkPid; count++.
Insert(pids, count, pid) ==
    [k \in 0..count |-> IF k = count THEN pid ELSE pids[k]]

\* Line 214 not taken, lines 225-231: the child is registered.
Register ==
    /\ MainAt("branch")
    /\ ~RunsInForeground(background, foregroundOnly)
    /\ dispatch' = [dispatch EXCEPT !.class = "bg",
                                    !.mode = ShellMode(foregroundOnly),
                                    !.status = NoPid,
                                    !.execFailed = FALSE]
    /\ IF backgroundPidCount < BackgroundPidSlots
       THEN /\ backgroundPids' = Insert(backgroundPids, backgroundPidCount, forkPid)
            /\ backgroundPidCount' = backgroundPidCount + 1
            /\ pc' = "restore"
       ELSE \* backgroundPids[100] is written: out of bounds
            /\ pc' = "undefined"
            /\ UNCHANGED <<backgroundPids, backgroundPidCount>>
    /\ UNCHANGED <<sigVars, cmdVars, childExitMethod, idx, i, forkPid, parentPid,
                   procs, reports, sweepIds, sweepDead, checked, lateTermination, osVars>>

\* Lines 234-235: redirectStdin(savedStdin); redirectStdout(savedStdout); then
\* the end of the loop body.
Restore ==
    /\ MainAt("restore")
    /\ fds' = redirectStdout(redirectStdin(fds, fds.savedStdin), fds.savedStdout)
    /\ EndOfIteration
    /\ UNCHANGED <<sigVars, childExitMethod, backgroundPids, backgroundPidCount, i,
                   forkPid, parentPid, procs, reports, lateTermination, shellExit>>

(***************************************************************************)
(* terminatePidGroup, lines 433-445.                                       *)
(***************************************************************************)
\* Line 440: kill(bgProcs[i], SIGTERM). A running child dies of the signal,
\* unless its program catches or ignores SIGTERM.
TermKill ==
    /\ MainAt("term_kill")
    /\ i < backgroundPidCount
    /\ LET pid == backgroundPids[i]
       IN \/ /\ Running(procs, pid)
             /\ procs' = [procs EXCEPT ![pid] = Dead(SIGTERM)]
             /\ lateTermination' = (lateTermination \/ reports # <<>>)
          \/ /\ Execd(procs, pid)
             /\ UNCHANGED <<procs, lateTermination>>
          \/ /\ ~Running(procs, pid)
             /\ UNCHANGED <<procs, lateTermination>>
    /\ pc' = "term_wait"
    /\ UNCHANGED <<sigVars, cmdVars, reaperVars, childExitMethod, i, forkPid,
                   parentPid, dispatch, osVars>>

\* Line 441: waitpid(bgProcs[i], &exitMethod, 0), and i++.
TermWait ==
    /\ MainAt("term_wait")
    /\ LET r == IF eintr THEN [ret |-> -1, status |-> 0, blocks |-> FALSE]
                ELSE waitpid(procs, backgroundPids[i], FALSE)
       IN /\ ~r.blocks
          /\ procs' = Reaped(procs, r.ret)
    /\ eintr' = FALSE
    /\ i' = i + 1
    /\ pc' = "term_kill"
    /\ UNCHANGED <<handler, foregroundOnly, fgPidForSignal, oddDeliveries, cmdVars,
                   reaperVars, childExitMethod, forkPid, parentPid, dispatch,
                   lateTermination, osVars>>

\* Line 444: exit(0).
TermExit ==
    /\ MainAt("term_kill")
    /\ i >= backgroundPidCount
    /\ pc' = "exited"
    /\ shellExit' = <<0>>
    /\ UNCHANGED <<sigVars, cmdVars, reaperVars, childExitMethod, i, forkPid,
                   parentPid, procs, dispatch, lateTermination, fds>>

(***************************************************************************)
(* catchSIGTSTP, lines 557-592, and the delivery of SIGTSTP to the shell.  *)
(***************************************************************************)
\* The blocking waitpid main stands at, if any: the process ID it waits for.
BlockingTarget ==
    IF pc = "fgwait" THEN forkPid
    ELSE IF pc = "term_wait" THEN backgroundPids[i]
    ELSE NoPid

\* The kernel runs the handler (sa_mask is full: it is not re-entered). A
\* waitpid that main is blocked in will return EINTR once the handler returns;
\* main may also not have entered the call yet.
Deliver ==
    /\ Alive
    /\ handler = "idle"
    /\ handler' = "wait"
    /\ \E interrupted \in BOOLEAN :
          /\ interrupted => Running(procs, BlockingTarget)
          /\ eintr' = (eintr \/ interrupted)
    /\ oddDeliveries' = ~oddDeliveries
    /\ UNCHANGED <<pc, foregroundOnly, fgPidForSignal, cmdVars,
                   reaperVars, childExitMethod, i, forkPid, parentPid, procs,
                   dispatch, lateTermination, osVars>>

\* Line 562: waitpid(fgPidForSignal, &exitMeth, 0), a blocking wait.
HandlerWaits(pid) == waitpid(procs, pid, FALSE)

HandlerWait ==
    /\ handler = "wait"
    /\ LET r == HandlerWaits(fgPidForSignal)
       IN /\ ~r.blocks
          /\ procs' = Reaped(procs, r.ret)
    /\ handler' = "toggle"
    /\ UNCHANGED <<pc, eintr, foregroundOnly, fgPidForSignal, oddDeliveries,
                   cmdVars, reaperVars, childExitMethod, i, forkPid, parentPid,
                   dispatch, lateTermination, osVars>>

\* A handler that only ever switches foreground-only mode on.
SwitchedOn(fgOnly) == TRUE

\* Lines 564-590: the value foregroundOnly is set to.
Toggled(fgOnly) == IF ~fgOnly THEN TRUE ELSE FALSE

\* Lines 564-590: the flag is flipped and the notice written; the handler
\* returns.
HandlerToggle ==
    /\ handler = "toggle"
    /\ foregroundOnly' = Toggled(foregroundOnly)
    /\ handler' = "idle"
    /\ UNCHANGED <<pc, eintr, fgPidForSignal, oddDeliveries, cmdVars, reaperVars, childExitMethod,
                   i, forkPid, parentPid, procs, dispatch, lateTermination, osVars>>

(***************************************************************************)
(* The child, lines 191-208, and the program it runs.                      *)
(***************************************************************************)
\* redirectStdIO, lines 605-636, on the table of the process that calls it,
\* when every open succeeds.
redirectStdIO(tab, newStdin, newStdout, bgFlag) ==
    LET tabIn == IF newStdin # NULL THEN redirectStdin(tab, newStdin)
                 ELSE IF bgFlag THEN redirectStdin(tab, DevNull)
                 ELSE tab
    IN IF newStdout # NULL THEN redirectStdout(tabIn, newStdout)
       ELSE IF bgFlag THEN redirectStdout(tabIn, DevNull)
       ELSE tabIn

\* Lines 196-199: the disposition of SIGINT the child ends up with.
ChildSigint(bgFlag) == IF ~bgFlag THEN "default" ELSE "ignore"

\* The history of the dispatch in progress when its child ends with st.
Ended(pid, st, failed) ==
    IF pid = dispatch.pid /\ dispatch.class # "bg"
    THEN [dispatch EXCEPT !.status = st, !.execFailed = failed]
    ELSE dispatch

LateNow == lateTermination \/ reports # <<>> \/ (pc = "sweep" /\ idx > 0)

\* exit(1) as a wait status.
ExitFailure == 256

\* Lines 194-205 in the child: redirectStdIO, the two sigactions, execvp. An
\* open of a named file may fail (openInpFile, openOutFile: perror, exit(1));
\* so may execvp (execute: perror, exit(1)). When execvp succeeds the program
\* runs with the descriptors and the ignored signals it inherits.
ChildStart(pid) ==
    /\ Alive
    /\ Forked(procs, pid)
    /\ LET c == procs[pid]
           tab == redirectStdIO([stdin |-> c.stdin, stdout |-> c.stdout],
                                c.inputfile, c.outputfile, c.background)
       IN \/ /\ c.inputfile # NULL \/ c.outputfile # NULL
             /\ procs' = [procs EXCEPT ![pid] = Dead(ExitFailure)]
             /\ dispatch' = Ended(pid, ExitFailure, FALSE)
             /\ lateTermination' = LateNow
          \/ /\ procs' = [procs EXCEPT ![pid] = Dead(ExitFailure)]
             /\ dispatch' = Ended(pid, ExitFailure, TRUE)
             /\ lateTermination' = LateNow
          \/ /\ procs' = [procs EXCEPT ![pid] =
                            [state |-> "running", status |-> NoPid,
                             background |-> FALSE,
                             inputfile |-> NULL, outputfile |-> NULL,
                             stdin |-> tab.stdin, stdout |-> tab.stdout,
                             sigint |-> ChildSigint(c.background),
                             sigtstp |-> "ignore", ranHandler |-> FALSE]]
             /\ UNCHANGED <<dispatch, lateTermination>>
    /\ UNCHANGED <<pc, sigVars, cmdVars, reaperVars, childExitMethod, i, forkPid,
                   parentPid, osVars>>

\* SIGTSTP reaches a child that has not yet got to line 203: the disposition
\* it inherited is catchSIGTSTP, which runs in the child (its waitpid fails,
\* it flips the child's copy of foregroundOnly and writes the notice).
ChildCatch(pid) ==
    /\ Alive
    /\ Forked(procs, pid)
    /\ procs[pid].sigtstp = "catch"
    /\ ~procs[pid].ranHandler
    /\ procs' = [procs EXCEPT ![pid].ranHandler = TRUE]
    /\ UNCHANGED <<pc, sigVars, cmdVars, reaperVars, childExitMethod, i, forkPid,
                   parentPid, dispatch, lateTermination, osVars>>

\* The program the child has exec'd terminates with status st.
Terminate(pid, st) ==
    /\ Alive
    /\ Execd(procs, pid)
    /\ procs' = [procs EXCEPT ![pid] = Dead(st)]
    /\ dispatch' = Ended(pid, st, FALSE)
    /\ lateTermination' = LateNow
    /\ UNCHANGED <<pc, sigVars, cmdVars, reaperVars, childExitMethod, i, forkPid,
                   parentPid, osVars>>

(***************************************************************************)
(* The shell.                                                              *)
(***************************************************************************)
Next ==
    \/ ReapCheck
    \/ SweepDone
    \/ /\ pc = "prompt"
       /\ \E line \in UserLines :
             /\ Forks(line) => Len(procs) < MaxProcs
             /\ ReadAndParse(line)
    \/ NoOp
    \/ BuiltinCd
    \/ BuiltinStatus
    \/ BuiltinExit
    \/ Fork
    \/ ForkFail
    \/ BranchFg
    \/ SetFg
    \/ FgWait
    \/ ClearFg
    \/ Register
    \/ Restore
    \/ TermKill
    \/ TermWait
    \/ TermExit
    \/ Deliver
    \/ HandlerWait
    \/ HandlerToggle
    \/ \E pid \in 1..Len(procs) : ChildStart(pid)
    \/ \E pid \in 1..Len(procs) : ChildCatch(pid)
    \/ \E pid \in 1..Len(procs), st \in ExitStatuses : Terminate(pid, st)

Spec == Init /\ [][Next]_vars

(***************************************************************************)
(* The shell with a crowded registry: all slots of backgroundPids but one  *)
(* hold running background jobs, and the user starts more of them.         *)
(***************************************************************************)
\* A background job started by "ls &" in normal mode that runs its program.
BackgroundJob == [state |-> "running", status |-> NoPid, background |-> FALSE,
                  inputfile |-> NULL, outputfile |-> NULL,
                  stdin |-> DevNull, stdout |-> DevNull,
                  sigint |-> "ignore", sigtstp |-> "ignore", ranHandler |-> FALSE]

CrowdedJobs == BackgroundPidSlots - 1

\* The number of children forked in a crowded run.
CrowdedProcs == BackgroundPidSlots + 1

\* The state at the top of the loop after CrowdedJobs background dispatches.
CrowdedInit ==
    /\ pc = "sweep"
    /\ handler = "idle"
    /\ eintr = FALSE
    /\ foregroundOnly = FALSE
    /\ fgPidForSignal = NoPid
    /\ childExitMethod = NoPid
    /\ backgroundPids = [k \in 0..(CrowdedJobs - 1) |-> k + 1]
    /\ backgroundPidCount = CrowdedJobs
    /\ idx = 0
    /\ i = 0
    /\ forkPid = CrowdedJobs
    /\ userCmd = NULL
    /\ cmdargs = <<>>
    /\ inputfile = NULL
    /\ outputfile = NULL
    /\ background = FALSE
    /\ parentPid \in ShellPids
    /\ procs = [k \in 1..CrowdedJobs |-> BackgroundJob]
    /\ reports = <<>>
    /\ typed = NULL
    /\ dispatch = NoDispatch
    /\ sweepIds = 1..CrowdedJobs
    /\ sweepDead = {}
    /\ checked = {}
    /\ oddDeliveries = FALSE
    /\ lateTermination = FALSE
    /\ shellExit = <<>>
    /\ fds = StartFds

\* The lines typed in a crowded run.
CrowdedLines == {
    <<Tok_comment, Tok_gt>>,
    <<Tok_ls, Tok_gt, Tok_file, Tok_amp>> }

\* The control loop with background dispatches only; of the jobs, the newest
\* ones terminate.
CrowdedNext ==
    \/ ReapCheck
    \/ SweepDone
    \/ /\ pc = "prompt"
       /\ \E line \in CrowdedLines :
             /\ Forks(line) => Len(procs) < CrowdedProcs
             /\ ReadAndParse(line)
    \/ NoOp
    \/ ForkUnder(CrowdedProcs)
    \/ Register
    \/ Restore
    \/ \E pid \in CrowdedJobs..Len(procs) : ChildStart(pid)
    \/ \E pid \in CrowdedJobs..Len(procs), st \in ExitStatuses : Terminate(pid, st)

CrowdedSpec == CrowdedInit /\ [][CrowdedNext]_vars

(***************************************************************************)
(* parseUserCmd on its own: every line of up to MaxLineToks tokens.        *)
(***************************************************************************)
MaxLineToks == 3

Chars == {"a", "$"}

ArgTokens == UNION {[1..n -> Chars] : n \in 1..MaxTokLen}

ParserTokens == ArgTokens \cup {Tok_lt, Tok_gt, Tok_amp, Tok_comment}

ParserLines == UNION {[1..n -> ParserTokens] : n \in 0..MaxLineToks}

ParserPids == {7, 4242}

\* The caller takes the results and resets its variables (lines 242-264).
ParserReturn ==
    /\ MainAt("decide")
    /\ pc' = "prompt"
    /\ userCmd' = NULL
    /\ typed' = NULL
    /\ inputfile' = NULL
    /\ outputfile' = NULL
    /\ cmdargs' = <<>>
    /\ background' = FALSE
    /\ UNCHANGED <<sigVars, reaperVars, childExitMethod, i, forkPid, parentPid,
                   procs, dispatch, lateTermination, osVars>>

ParserInit == InitWith(ParserPids, "prompt")

ParserNext ==
    \/ /\ pc = "prompt"
       /\ \E line \in ParserLines : ReadAndParse(line)
    \/ ParserReturn

ParserSpec == ParserInit /\ [][ParserNext]_vars

(***************************************************************************)
(* Properties.                                                             *)
(***************************************************************************)
\* C1. When main has passed the foreground wait of line 217 (it stands at line
\* 218), the child it dispatched as foreground has terminated and
\* childExitMethod (LastExitStatus) is the status that child terminated with,
\* whatever the handler did meanwhile.
C1_ForegroundStatusRecorded ==
    (pc = "clearfg" /\ dispatch.class = "fg")
        => /\ ~Running(procs, dispatch.pid)
           /\ childExitMethod = dispatch.status

\* C2. When a sweep has ended and the prompt is about to be printed, every ID
\* that was registered when the sweep started has had its WNOHANG check, and
\* every one of them that had terminated by then is reported and no longer
\* registered.
C2_SweepReapsAllTerminated ==
    pc = "prompt"
        => /\ sweepIds \subseteq checked
           /\ \A p \in sweepDead :
                 /\ p \notin RegisteredIds
                 /\ \E k \in 1..Len(reports) : reports[k] = p

\* Process IDs are handed out in increasing order: spawn order is ID order.
InSpawnOrder(ids) ==
    \A a, b \in 1..Len(ids) : a < b => ids[a] < ids[b]

\* C3. Once background commands were dispatched, all terminated, and were then
\* all reaped (no child terminated part-way through a sweep or after the first
\* reap report, the registry is empty again), the reap reports list the IDs in
\* spawn order.
C3_ReapReportsInSpawnOrder ==
    (pc = "prompt" /\ backgroundPidCount = 0 /\ ~lateTermination)
        => InSpawnOrder(reports)

\* The registry holds no reaped ID and no ID twice.
RegistryClean ==
    /\ \A k \in 1..Len(Registry) :
          IsChild(procs, Registry[k]) /\ procs[Registry[k]].state # "reaped"
    /\ \A a, b \in 1..Len(Registry) : a # b => Registry[a] # Registry[b]

Pos(s, x) == CHOOSE k \in 1..Len(s) : s[k] = x

\* A step that shortens the registry keeps the survivors, all of them entries
\* of the old registry, in their old relative order.
OrderKept ==
    backgroundPidCount' < backgroundPidCount
        => /\ \A a \in 1..Len(Registry') :
                 \E k \in 1..Len(Registry) : Registry[k] = Registry'[a]
           /\ \A a, b \in 1..Len(Registry') :
                 a < b => Pos(Registry, Registry'[a]) < Pos(Registry, Registry'[b])

\* terminatePidGroup (the exit built-in) has been entered.
InTerminatePidGroup == pc \in {"term_kill", "term_wait", "exited"}

C5_ForegroundOnlyDispatchBlocks ==
    dispatch.mode = "foreground-only"
        => /\ dispatch.class = "fg"
           /\ dispatch.pid \notin RegisteredIds
           /\ pc \in {"clearfg", "restore"} => ~Running(procs, dispatch.pid)

\* A command with the background flag set, dispatched in foreground-only mode,
\* is past its foreground wait.
C5_Witness ==
    /\ pc = "restore"
    /\ background
    /\ dispatch.mode = "foreground-only"
    /\ dispatch.class = "fg"
    /\ ~Running(procs, dispatch.pid)

C7_ToggleFlipsOncePerDelivery ==
    /\ [][IF handler = "toggle" /\ handler' = "idle"
          THEN foregroundOnly' = ~foregroundOnly
          ELSE foregroundOnly' = foregroundOnly]_vars
    /\ [](handler = "idle" => foregroundOnly = oddDeliveries)

\* Two deliveries have been handled: the mode was foreground-only when line 214
\* read it for the dispatch in progress, and is normal again.
C7_Witness ==
    /\ handler = "idle"
    /\ dispatch.mode = "foreground-only"
    /\ ~foregroundOnly
    /\ ~oddDeliveries

\* The line has a command and ends in "<" or ">": strtok_r has no path to give.
TrailingRedirect(line) ==
    Len(line) >= 2 /\ line[Len(line)] \in {Tok_lt, Tok_gt}

\* C8. A line whose last token is "<" or ">" never crashes the shell and never
\* gets as far as a fork: no child is spawned for it.
C8_TrailingRedirectRejected ==
    TrailingRedirect(typed)
        => /\ pc # "crashed"
           /\ dispatch.pid = NoPid

\* The token with every "$$", found from left to right, replaced by dec, and
\* every other character kept.
RECURSIVE ReplaceAll(_, _)
ReplaceAll(tok, dec) ==
    IF tok = <<>> THEN <<>>
    ELSE IF Len(tok) >= 2 /\ tok[1] = "$" /\ tok[2] = "$"
         THEN dec \o ReplaceAll(SubSeq(tok, 3, Len(tok)), dec)
         ELSE <<tok[1]>> \o ReplaceAll(Tail(tok), dec)

\* Every token after the command is an ordinary argument.
OnlyArguments(line) ==
    \A k \in 2..Len(line) : line[k] \notin {Tok_lt, Tok_gt, Tok_amp}

\* C9. When parseUserCmd has returned, every argument whose token contains
\* "$$" is that token with each "$$" replaced by the decimal process ID of the
\* shell and all its other characters kept in place.
C9_EveryDollarsReplaced ==
    (pc = "decide" /\ OnlyArguments(typed))
        => \A k \in 2..Len(typed) :
              FirstDollars(typed[k], 1) # 0
                  => cmdargs[k] = ReplaceAll(typed[k], Decimal(parentPid))

\* C10. Reading a blank line or a line whose first token starts with "#", and
\* then acting on it, spawn no process, leave childExitMethod, the registry and
\* foregroundOnly as they were, and bring the loop to its next iteration.
C10_BlankAndCommentAreNoOps ==
    [][(\/ pc = "prompt" /\ pc' # pc /\ IsNoOp(typed')
        \/ pc = "decide" /\ pc' # pc /\ IsNoOp(typed))
          => /\ pc' = (IF pc = "prompt" THEN "decide" ELSE "sweep")
             /\ procs' = procs
             /\ childExitMethod' = childExitMethod
             /\ Registry' = Registry
             /\ foregroundOnly' = foregroundOnly]_vars

\* C11. The shell calls exit(0) only out of terminatePidGroup, after the loop
\* of lines 438-442 has gone through every registered ID, and at that moment no
\* child it forked is still running.
C11_ExitLeavesNoChildBehind ==
    shellExit = <<0>>
        => /\ i = backgroundPidCount
           /\ \A p \in 1..Len(procs) : ~Running(procs, p)

\* C12. When execvp has failed in a child the parent waits for, the child has
\* terminated with exit(1); once the parent is past the wait, childExitMethod
\* is a normal exit with a non-zero code.
C12_ExecFailureRecorded ==
    dispatch.execFailed
        => /\ ~Running(procs, dispatch.pid)
           /\ dispatch.status = ExitFailure
           /\ (dispatch.class = "fg" /\ pc \in {"clearfg", "restore"})
                 => /\ WIFEXITED(childExitMethod)
                    /\ WEXITSTATUS(childExitMethod) # 0

\* C13. The handler never stands at a wait that does not return: whenever it
\* is at its waitpid of line 562, the call returns at once, whether or not a
\* foreground child is still running.
C13_HandlerNeverBlocks ==
    handler = "wait" => ~HandlerWaits(fgPidForSignal).blocks

\* The parent has decided how to run the child of the dispatch in progress,
\* and that child has got through lines 194-205 and runs its program.
DispatchedChildRuns ==
    dispatch.class \in {"fg", "bg"} /\ Execd(procs, dispatch.pid)

\* C14. A child whose command names no input (resp. output) path has its
\* standard input (resp. output) on the null device exactly if the parent
\* registered it as a background job, that is, the background flag was set and
\* line 214 read normal mode.
C14_NullDeviceIffBackground ==
    DispatchedChildRuns
        => /\ inputfile = NULL
                => (procs[dispatch.pid].stdin = DevNull <=> dispatch.class = "bg")
           /\ outputfile = NULL
                => (procs[dispatch.pid].stdout = DevNull <=> dispatch.class = "bg")

\* C15. A child has SIGINT at its default disposition exactly if the parent
\* waits for it in the foreground; a child registered as a background job
\* ignores SIGINT.
C15_InterruptibleIffForeground ==
    DispatchedChildRuns
        => (procs[dispatch.pid].sigint = "default" <=> dispatch.class = "fg")

\* C16. Every child that has not terminated ignores SIGTSTP, from the fork on,
\* and no child has run catchSIGTSTP.
C16_ChildrenIgnoreSigtstp ==
    \A p \in 1..Len(procs) :
        Running(procs, p)
            => procs[p].sigtstp = "ignore" /\ ~procs[p].ranHandler

\* C17. The shell does not go on after a foreground wait that failed: when
\* forkPid holds the -1 an unsuccessful call returned, the shell has exited
\* with a non-zero status.
C17_WaitFailureIsFatal ==
    forkPid = -1 => pc = "exited" /\ shellExit \notin {<<>>, <<0>>}

\* C18. Whenever the control loop is about to read a line, the shell's own
\* standard input and output refer to what they referred to at start-up, the
\* originals main saved at lines 95-96.
C18_ParentDescriptorsRestored ==
    pc = "prompt"
        => /\ fds.stdin = StartFds.stdin /\ fds.stdin = fds.savedStdin
           /\ fds.stdout = StartFds.stdout /\ fds.stdout = fds.savedStdout

\* The shell is back at the prompt after dispatches of both kinds: a background
\* child runs with its input and output on the null device, and a foreground
\* wait has stored the status of a child whose open or exec failed.
C18_Witness ==
    /\ pc = "prompt"
    /\ childExitMethod = ExitFailure
    /\ \E p \in 1..Len(procs) :
          /\ Execd(procs, p)
          /\ procs[p].stdout = DevNull
          /\ procs[p].stdin = DevNull

\* childExitMethod changes on no step but the return of the foreground wait
\* of line 217.
OnlyForegroundWaitStores ==
    childExitMethod' # childExitMethod
        => pc = "fgwait" /\ pc' = "clearfg" /\ handler = "idle"

\* C19. childExitMethod changes only when the foreground wait returns (so not
\* on a background dispatch, a reap, cd, status or a SIGTSTP delivery), and
\* when a foreground dispatch is over it holds the status of the child of that
\* dispatch, which is what the status built-in then reports.
C19_LastExitStatusOfLastForeground ==
    /\ [][OnlyForegroundWaitStores]_vars
    /\ []((pc = "restore" /\ dispatch.class = "fg")
            => childExitMethod = dispatch.status)

\* C20. The registry never holds more than BackgroundPidSlots jobs, and no
\* insertion or slide touches a slot outside 0 .. BackgroundPidSlots - 1 (an
\* access outside the array leaves the shell in undefined behaviour).
C20_RegistryWithinCapacity ==
    /\ backgroundPidCount <= BackgroundPidSlots
    /\ DOMAIN backgroundPids \subseteq 0..(BackgroundPidSlots - 1)
    /\ pc # "undefined"

====
